---- MODULE Spec2Model ----
(***************************************************************************)
(* ChatService (backend/src/services/ChatService.ts): the singleton agent  *)
(* service adapter with its lazy asynchronous initialization;             *)
(* validateChatRequest and sanitizePrompt (the request validator and the   *)
(* prompt sanitizer); the POST /chat handler of backend/src/chat-api.ts;   *)
(* ChatContainer, the chat UI of the frontend; the agent workflow (the    *)
(* llm/tools graph); and the two extractions of the final message's       *)
(* content.  The parts share no state; each has its own specification.    *)
(*                                                                         *)
(* The adapter runs on the JavaScript event loop: a handler runs without   *)
(* interruption up to its next await, and the continuations of a settled   *)
(* promise (microtasks) run before the next task.  Every action below is   *)
(* one such uninterrupted stretch of code.  The calls in progress are      *)
(* anonymous suspended continuations, kept as a bag.                       *)
(***************************************************************************)
EXTENDS Integers, Sequences, FiniteSets, Bags, TLC

\* ---------------------------------------------------------------- bounds
NProcs == 2        \* concurrent callers of the adapter
MaxAtt == 3        \* _initialize runs (each constructs one MCP client)
MaxObj == 2        \* ChatService objects constructed by getInstance
FairAtt == 2       \* _initialize runs, in the runs checked for liveness
FairObj == 1       \* ChatService objects, in the runs checked for liveness
SoleAtt == 1       \* _initialize runs, in the runs checked for the singleton

Procs == 1..NProcs
Atts  == 1..MaxAtt
Objs  == 1..MaxObj

\* ------------------------------------------------- texts and thrown values
\* A text is a sequence of tokens; concatenation is \o.
Contains(s, t) ==
  \E i \in 0..(Len(s) - Len(t)) : \A j \in 1..Len(t) : s[i + j] = t[j]

\* A thrown value: an Error carrying a message, or any other value.
Err(m)     == [isError |-> TRUE, message |-> m]
NonError   == [isError |-> FALSE, message |-> <<"raw">>]
NoCause    == [isError |-> FALSE, message |-> <<>>]

\* What the MCP server and the agent runtime can throw.
ExternalThrows == {Err(<<"ECONNREFUSED">>), NonError}

NoToolsError == Err(<<"No MCP tools found. Make sure the neo4j server is working correctly.">>)

\* The wrapping error without the message of what it wraps.
InitFailure_NoCause(e) == Err(<<"ChatService initialization failed">>)

\* `error instanceof Error ? error.message : 'Unknown error'` wrapped by the
\* catch block of _initialize.
InitFailure(e) ==
  Err(<<"ChatService initialization failed: ">>
        \o (IF e.isError THEN e.message ELSE <<"Unknown error">>))

\* The error text of processChat's catch block.
ChatErrorText(e) ==
  IF e.isError THEN e.message ELSE <<"Unknown error occurred">>

WorkflowNotInitialized == Err(<<"Workflow not initialized">>)

\* ------------------------------------------------ final message contents
\* The content of the last message of a workflow result.
StrContent(s)   == [kind |-> "string", text |-> s, parts |-> <<>>, truthy |-> s # <<>>]
ArrContent(ps)  == [kind |-> "array", text |-> <<>>, parts |-> ps, truthy |-> TRUE]
OtherContent(s) == [kind |-> "other", text |-> s, parts |-> <<>>, truthy |-> TRUE]
NoContent       == [kind |-> "other", text |-> <<>>, parts |-> <<>>, truthy |-> FALSE]

\* A part of an array content: a string, or an object with its JSON text.
StrPart(s) == [isString |-> TRUE, text |-> s]
ObjPart(j) == [isString |-> FALSE, text |-> j]

RECURSIVE JoinParts(_)
JoinParts(ps) ==
  IF ps = <<>> THEN <<>>
  ELSE IF Len(ps) = 1 THEN ps[1].text
  ELSE ps[1].text \o <<" ">> \o JoinParts(Tail(ps))

\* The truthiness of the content tested before its type.
extractMessageContent_TruthyFirst(content) ==
  IF ~content.truthy THEN <<"No response generated">>
  ELSE IF content.kind = "array" THEN JoinParts(content.parts)
  ELSE content.text

extractMessageContent(content) ==
  IF content.kind = "string" THEN content.text
  ELSE IF content.kind = "array" THEN JoinParts(content.parts)
  ELSE IF content.truthy THEN content.text
  ELSE <<"No response generated">>

\* -------------------------------------------- messages of the workflow
RECURSION_LIMIT == 10
MaxToolCalls == 2  \* tool calls of one response of the model

HumanMessage == [type |-> "human", toolCalls |-> 0]
AIMessage(n) == [type |-> "ai", toolCalls |-> n]
ToolMessage  == [type |-> "tool", toolCalls |-> 0]

\* The conditional edge, had it led every response of the model to tools
shouldContinue_Always(ms) ==
  IF ms[Len(ms)].type = "ai" THEN "tools" ELSE "end"

\* The conditional edge of llm: "tools" when the last message has a
\* non-empty tool_calls array, else END
shouldContinue(ms) ==
  IF ms[Len(ms)].type = "ai" /\ ms[Len(ms)].toolCalls > 0 THEN "tools" ELSE "end"

\* ------------------------------------------------ values of a content
\* JavaScript values a message content can be: undefined, null, a number, a
\* boolean, a string, the object {type: s}, or an array of such values.
MaxParts == 2      \* parts of an array content

UndefinedValue  == [t |-> "undefined", s |-> <<>>, n |-> 0, items |-> <<>>]
NullValue       == [t |-> "null", s |-> <<>>, n |-> 0, items |-> <<>>]
NumberValue(n)  == [t |-> "number", s |-> <<>>, n |-> n, items |-> <<>>]
BooleanValue(b) == [t |-> "boolean", s |-> <<>>, n |-> IF b THEN 1 ELSE 0, items |-> <<>>]
StringValue(s)  == [t |-> "string", s |-> s, n |-> 0, items |-> <<>>]
ObjectValue(s)  == [t |-> "object", s |-> s, n |-> 0, items |-> <<>>]
ArrayValue(vs)  == [t |-> "array", s |-> <<>>, n |-> 0, items |-> vs]

\* `if (v)`
ToBoolean(v) ==
  CASE v.t = "string" -> v.s # <<>>
    [] v.t \in {"number", "boolean"} -> v.n # 0
    [] v.t \in {"object", "array"} -> TRUE
    [] OTHER -> FALSE

\* String(v), for a value that is not an array
StringOf(v) ==
  CASE v.t = "string" -> v.s
    [] v.t = "number" -> <<ToString(v.n)>>
    [] v.t = "boolean" -> IF v.n = 1 THEN <<"true">> ELSE <<"false">>
    [] v.t = "object" -> <<"[object Object]">>
    [] OTHER -> <<v.t>>

\* JSON.stringify(v), for a value that is neither undefined nor an array
JSONStringify(v) ==
  CASE v.t = "string" -> <<"\"">> \o v.s \o <<"\"">>
    [] v.t = "object" -> <<"{\"type\":", "\"">> \o v.s \o <<"\"", "}">>
    [] OTHER -> StringOf(v)

\* What the extractions see of a content: `typeof content === 'string'`,
\* `Array.isArray(content)`, its parts mapped by
\* `typeof c === 'string' ? c : JSON.stringify(c)`, its truthiness and its
\* string form.
ContentOf(v) ==
  [kind   |-> IF v.t \in {"string", "array"} THEN v.t ELSE "other",
   text   |-> IF v.t = "array" THEN <<>> ELSE StringOf(v),
   parts  |-> [i \in 1..Len(v.items) |->
                IF v.items[i].t = "string" THEN StrPart(v.items[i].s)
                ELSE ObjPart(JSONStringify(v.items[i]))],
   truthy |-> ToBoolean(v)]

PartValues ==
  {StringValue(<<"a">>), StringValue(<<"b c">>), StringValue(<<>>), ObjectValue(<<"x">>),
   NumberValue(7), BooleanValue(TRUE), NullValue}
ContentValues ==
  {StringValue(<<"hello">>), StringValue(<<>>), UndefinedValue, NullValue, NumberValue(0),
   NumberValue(7), BooleanValue(FALSE), BooleanValue(TRUE), ObjectValue(<<"x">>)}
  \cup {ArrayValue(vs) : vs \in UNION {[1..k -> PartValues] : k \in 0..MaxParts}}

FinalContents ==
  { StrContent(<<"hello">>),
    ArrContent(<<StrPart(<<"a">>), ObjPart(<<"{\"type\":\"x\"}">>)>>) }

\* ------------------------------------------------------------ the results
\* How an operation ended: it returned (processChat: a ChatResponse) or its
\* promise rejected (threw).
NoResult == [kind |-> "none", settled |-> "none", success |-> FALSE,
             response |-> <<>>, error |-> <<>>]
Returned(k) == [kind |-> k, settled |-> "returned", success |-> TRUE,
                response |-> <<>>, error |-> <<>>]
Rejected(k, e) == [kind |-> k, settled |-> "rejected", success |-> FALSE,
                   response |-> <<>>, error |-> ChatErrorText(e)]
ChatSuccess(r) == [kind |-> "processChat", settled |-> "returned", success |-> TRUE,
                   response |-> r, error |-> <<>>]
ChatFailure(e) == [kind |-> "processChat", settled |-> "returned", success |-> FALSE,
                   response |-> <<>>, error |-> ChatErrorText(e)]

\* ------------------------------------------------------ validateChatRequest
MAX_PROMPT_LENGTH == 2000

MaxRuns == 2       \* runs of equal characters in a string

\* A string is a sequence of runs: character c repeated n times.
Chars == {"a", " ", "\t"}
RunLens == {1, MAX_PROMPT_LENGTH, MAX_PROMPT_LENGTH + 1}
Run(c, n) == [c |-> c, n |-> n]
Runs == [c : Chars, n : RunLens]
Strs == UNION {[1..k -> Runs] : k \in 0..MaxRuns}

IsWhitespace(c) == c \in {" ", "\t"}

\* String.prototype.length
RECURSIVE Length(_)
Length(s) == IF s = <<>> THEN 0 ELSE s[1].n + Length(Tail(s))

\* String.prototype.trim
RECURSIVE TrimStart(_)
TrimStart(s) ==
  IF s = <<>> THEN <<>>
  ELSE IF IsWhitespace(s[1].c) THEN TrimStart(Tail(s))
  ELSE s
RECURSIVE TrimEnd(_)
TrimEnd(s) ==
  IF s = <<>> THEN <<>>
  ELSE IF IsWhitespace(s[Len(s)].c) THEN TrimEnd(SubSeq(s, 1, Len(s) - 1))
  ELSE s
trim(s) == TrimEnd(TrimStart(s))

\* JavaScript values: the type typeof tells apart, the truthiness, and the
\* text of a string.
Undefined == [t |-> "undefined", truthy |-> FALSE, s |-> <<>>]
Null      == [t |-> "null", truthy |-> FALSE, s |-> <<>>]
Num(b)    == [t |-> "number", truthy |-> b, s |-> <<>>]
Bool(b)   == [t |-> "boolean", truthy |-> b, s |-> <<>>]
Object    == [t |-> "object", truthy |-> TRUE, s |-> <<>>]
Str(s)    == [t |-> "string", truthy |-> Length(s) > 0, s |-> s]

TypeOf(v) == IF v.t \in {"null", "array", "object"} THEN "object" ELSE v.t

Values == {Undefined, Null, Num(FALSE), Num(TRUE), Bool(FALSE), Object}
            \cup {Str(s) : s \in Strs}

\* The values validateChatRequest is given: an object with its prompt and
\* message properties (undefined when it has none), an array, or a value
\* that is not an object.
ObjectBody(p, m) == [t |-> "object", truthy |-> TRUE, prompt |-> p, message |-> m]
OtherBody(v) == [t |-> v.t, truthy |-> v.truthy, prompt |-> Undefined, message |-> Undefined]
ArrayBody == [t |-> "array", truthy |-> TRUE, prompt |-> Undefined, message |-> Undefined]

Bodies ==
  {ObjectBody(p, m) : p \in Values, m \in Values}
    \cup {ArrayBody}
    \cup {OtherBody(v) : v \in {Undefined, Null, Num(FALSE), Num(TRUE), Bool(FALSE),
                                Str(<<>>), Str(<<Run("a", 1)>>)}}

\* The error texts
BodyNotObject == "Request body must be an object"
FieldRequired == "Either 'prompt' or 'message' field is required"
MustBeString(f) == "'" \o f \o "' must be a string"
CannotBeEmpty(f) == "'" \o f \o "' cannot be empty"
CannotExceed(f) ==
  "'" \o f \o "' cannot exceed " \o ToString(MAX_PROMPT_LENGTH) \o " characters"

\* The results: a success with its data, a failure with its errors, or an
\* exception thrown out of the function.
NoData == [prompt |-> Undefined, message |-> Undefined]
NotValidated == [threw |-> FALSE, success |-> FALSE, errors |-> <<>>, data |-> NoData,
                 ran |-> FALSE]
Success(d)  == [threw |-> FALSE, success |-> TRUE, errors |-> <<>>, data |-> d, ran |-> TRUE]
Failure(es) == [threw |-> FALSE, success |-> FALSE, errors |-> es, data |-> NoData, ran |-> TRUE]
Thrown      == [threw |-> TRUE, success |-> FALSE, errors |-> <<>>, data |-> NoData, ran |-> TRUE]

\* The typeof test alone, which null passes.
NotAnObject_TypeofOnly(data) == TypeOf(data) # "object"

\* `!data || typeof data !== 'object'`
NotAnObject(data) == ~data.truthy \/ TypeOf(data) # "object"

\* The test for null in place of the test for a falsy value.
RequiredErrors_NullOnly(prompt, message) ==
  IF prompt.t = "null" /\ message.t = "null" THEN <<FieldRequired>> ELSE <<>>

\* `if (!prompt && !message)`
RequiredErrors(prompt, message) ==
  IF ~prompt.truthy /\ ~message.truthy THEN <<FieldRequired>> ELSE <<>>

\* The emptiness check without trim.
FieldErrors_NoTrim(f, v) ==
  IF v.t # "undefined"
  THEN IF TypeOf(v) # "string" THEN <<MustBeString(f)>>
       ELSE IF Length(v.s) = 0 THEN <<CannotBeEmpty(f)>>
       ELSE IF Length(v.s) > MAX_PROMPT_LENGTH THEN <<CannotExceed(f)>>
       ELSE <<>>
  ELSE <<>>

\* The length check with >= in place of >.
FieldErrors_OffByOne(f, v) ==
  IF v.t # "undefined"
  THEN IF TypeOf(v) # "string" THEN <<MustBeString(f)>>
       ELSE IF Length(trim(v.s)) = 0 THEN <<CannotBeEmpty(f)>>
       ELSE IF Length(v.s) >= MAX_PROMPT_LENGTH THEN <<CannotExceed(f)>>
       ELSE <<>>
  ELSE <<>>

\* The checks of one field, when it is provided
FieldErrors(f, v) ==
  IF v.t # "undefined"
  THEN IF TypeOf(v) # "string" THEN <<MustBeString(f)>>
       ELSE IF Length(trim(v.s)) = 0 THEN <<CannotBeEmpty(f)>>
       ELSE IF Length(v.s) > MAX_PROMPT_LENGTH THEN <<CannotExceed(f)>>
       ELSE <<>>
  ELSE <<>>

validateChatRequest(data) ==
  IF NotAnObject(data) THEN Failure(<<BodyNotObject>>)
  \* `const { prompt, message } = data` throws a TypeError on null and undefined
  ELSE IF data.t \in {"null", "undefined"} THEN Thrown
  ELSE LET errors == RequiredErrors(data.prompt, data.message)
                       \o FieldErrors("prompt", data.prompt)
                       \o FieldErrors("message", data.message)
       IN IF Len(errors) > 0 THEN Failure(errors)
          ELSE Success([prompt |-> data.prompt, message |-> data.message])

\* ----------------------------------------------------------- sanitizePrompt
\* The strings given to sanitizePrompt: words and gaps of one or two
\* characters, and words that reach the maximum length with one more run.
SanitizeRunLens == {1, 2, MAX_PROMPT_LENGTH - 1}
SanitizeRuns == [c : Chars, n : SanitizeRunLens]
SanitizeInputs == UNION {[1..k -> SanitizeRuns] : k \in 0..(MaxRuns + 1)}

\* Each whitespace character replaced on its own (no + in the pattern).
ReplaceWhitespace_EachChar(s) ==
  [i \in 1..Len(s) |-> IF IsWhitespace(s[i].c) THEN Run(" ", s[i].n) ELSE s[i]]

\* `.replace(/\s+/g, ' ')`: every maximal run of whitespace becomes one space
RECURSIVE ReplaceWhitespace(_)
ReplaceWhitespace(s) ==
  IF s = <<>> THEN <<>>
  ELSE IF IsWhitespace(s[1].c)
  THEN <<Run(" ", 1)>> \o ReplaceWhitespace(TrimStart(Tail(s)))
  ELSE <<s[1]>> \o ReplaceWhitespace(Tail(s))

\* String.prototype.substring(0, n)
RECURSIVE Substring0(_, _)
Substring0(s, n) ==
  IF s = <<>> \/ n <= 0 THEN <<>>
  ELSE IF s[1].n >= n THEN <<Run(s[1].c, n)>>
  ELSE <<s[1]>> \o Substring0(Tail(s), n - s[1].n)

\* With the truncation that the source keeps commented out.
sanitizePrompt_Truncated(prompt) ==
  Substring0(ReplaceWhitespace(trim(prompt)), MAX_PROMPT_LENGTH)

sanitizePrompt(prompt) == ReplaceWhitespace(trim(prompt))

\* ------------------------------------------------- POST /chat (chat-api.ts)
\* The bodies the handler is given: express.json() leaves an object (empty
\* when the request carried no JSON) or an array in req.body.
GatewayRuns == [c : {"a", " "}, n : {1, MAX_PROMPT_LENGTH + 1}]
GatewayStrs == UNION {[1..k -> GatewayRuns] : k \in 0..MaxRuns}
GatewayValues == {Undefined, Null, Num(FALSE), Num(TRUE), Bool(FALSE), Object}
                   \cup {Str(s) : s \in GatewayStrs}
GatewayBodies ==
  {ObjectBody(p, m) : p \in GatewayValues, m \in GatewayValues} \cup {ArrayBody}

\* `prompt || message`
FirstTruthy(prompt, message) == IF prompt.truthy THEN prompt ELSE message

\* The check without its typeof test.
BadPrompt_NoTypeCheck(userPrompt) == ~userPrompt.truthy

\* `!userPrompt || typeof userPrompt !== 'string'`
BadPrompt(userPrompt) == ~userPrompt.truthy \/ TypeOf(userPrompt) # "string"

\* What the per-request agent can throw before the graph runs: the missing
\* API key, the failure of getTools, an empty tool list.
MissingApiKey == Err(<<"OPENAI_API_KEY environment variable is required">>)
SetupThrows == ExternalThrows \cup {NoToolsError, MissingApiKey}

\* The content of the final message of the graph's result.
GatewayContents == FinalContents \cup {StrContent(<<>>), NoContent}

\* The truthiness of the content tested before its type.
finalResponse_TruthyFirst(content) ==
  IF ~content.truthy THEN <<"No response generated">>
  ELSE IF content.kind = "array" THEN JoinParts(content.parts)
  ELSE content.text

\* The fixed text left out: every other content gives its string form.
finalResponse_NoDefault(content) ==
  IF content.kind = "array" THEN JoinParts(content.parts)
  ELSE content.text

\* The text runChatExample returns for a final content
finalResponse(content) ==
  IF content.kind = "string" THEN content.text
  ELSE IF content.kind = "array" THEN JoinParts(content.parts)
  ELSE IF content.truthy THEN content.text
  ELSE <<"No response generated">>

\* The value of the error property of a response body: absent, a string, or
\* an object with its properties.
NoErrorField == [t |-> "absent", text |-> <<>>, fields |-> {}, statusCode |-> 0]
ErrorString(s) == [t |-> "string", text |-> s, fields |-> {}, statusCode |-> 0]

\* A response: the status sent and the JSON body, with the properties it has.
Response(status, fields, success, prompt, response, error, message) ==
  [status |-> status, fields |-> fields, success |-> success, prompt |-> prompt,
   response |-> response, error |-> error, message |-> message]

BadRequest ==
  Response(400, {"error", "message"}, FALSE, Undefined, <<>>,
           ErrorString(<<"Bad Request">>),
           <<"Please provide a \"prompt\" or \"message\" field with your question">>)

\* res.json without res.status: 200
ChatOk(userPrompt, result) ==
  Response(200, {"success", "prompt", "response", "timestamp"}, TRUE, userPrompt,
           result, NoErrorField, <<>>)

\* The fixed text in place of the message of the error.
ServerErrorText_Fixed(e) == <<"Unknown error occurred">>

\* `error instanceof Error ? error.message : 'Unknown error occurred'`
ServerErrorText(e) == IF e.isError THEN e.message ELSE <<"Unknown error occurred">>

ServerError(e) ==
  Response(500, {"success", "error", "message", "timestamp"}, FALSE, Undefined, <<>>,
           ErrorString(<<"Internal Server Error">>), ServerErrorText(e))

\* ------------------------------------------- ChatContainer (the chat UI)
MaxMsgs  == 4      \* messages in the transcript
MaxRnd   == 1      \* values Math.random() can take
MaxNow   == 1      \* milliseconds that pass (Date.now() starts at 0)

\* generateId(): the digits of Math.random() followed by those of Date.now()
generateId(rnd, now) == [rnd |-> rnd, now |-> now]
EmptyId == [rnd |-> 0, now |-> 0]
Rnds == 1..MaxRnd

\* What the user types, trimmed by MessageInput
UserTexts == {<<"q1">>, <<"q2">>}

\* A message of the transcript
Message(id, role, content, status) ==
  [id |-> id, role |-> role, content |-> content, status |-> status]

\* How ChatAPI.sendMessage settles: it resolves with the body of an ok
\* response (success true and a response text, or success false with or
\* without a message), or it throws an Error (fetch failed, status not ok).
ApiOk(t)     == [settled |-> "resolved", success |-> TRUE, response |-> t,
                 message |-> <<>>, cause |-> NoCause]
ApiNotOk(m)  == [settled |-> "resolved", success |-> FALSE, response |-> <<>>,
                 message |-> m, cause |-> NoCause]
ApiThrows(e) == [settled |-> "rejected", success |-> FALSE, response |-> <<>>,
                 message |-> <<>>, cause |-> e]
\* The body ChatAPI.sendMessage posts: `JSON.stringify({ prompt })`
RequestBody(prompt) == [prompt |-> prompt]

ApiOutcomes ==
  {ApiOk(<<"hello">>), ApiNotOk(<<>>), ApiNotOk(<<"overloaded">>),
   ApiThrows(Err(<<"HTTP error! status: 500">>))}

\* `throw new Error(response.message || 'Failed to get response')`, or what
\* sendMessage threw
Caught(r) ==
  IF r.settled = "rejected" THEN r.cause
  ELSE Err(IF r.message # <<>> THEN r.message ELSE <<"Failed to get response">>)

\* `err instanceof Error ? err.message : 'Something went wrong'`
ErrorMessage(err) == IF err.isError THEN err.message ELSE <<"Something went wrong">>

\* updateMessageStatus
UpdateStatus(ms, messageId, status) ==
  [i \in 1..Len(ms) |-> IF ms[i].id = messageId THEN [ms[i] EXCEPT !.status = status]
                        ELSE ms[i]]

\* The last message of the user, or none
LastUserMessage(ms) ==
  LET users == {i \in 1..Len(ms) : ms[i].role = "user"}
  IN IF users = {} THEN <<>>
     ELSE <<ms[CHOOSE i \in users : \A j \in users : j <= i]>>

VARIABLES
  instance,       \* ChatService.instance: 0 (null) or the object
  nObj,           \* ChatService objects constructed so far
  isInitialized,  \* per object
  workflow,       \* per object: 0 (null) or 1 (the compiled graph)
  mcpClient,      \* per object: 0 (null) or the client (named by its attempt)
  initPromise,    \* per object: 0 (null) or the attempt whose promise it is
  nAtt,           \* _initialize runs started so far
  attObj,         \* per attempt: the object (this) it runs on
  attState,       \* per attempt: "none", "pending", "ok", "failed", "done"
  attCause,       \* per attempt: what made it fail, while a caller still awaits it
  client,         \* per client: "open" (connected), else "none"
  callers,        \* the bag of suspended calls
  last,           \* how the operation that ended in the last step ended
  lastCause,      \* the value the catch block of that operation caught
  cleanedUp,      \* history, per object: cleanup returned, initialize not yet called again
  body,           \* the value given to validateChatRequest
  vres,           \* what validateChatRequest made of it
  text,           \* the string given to sanitizePrompt
  out,            \* what sanitizePrompt returned, applied once and again
  reqBody,        \* POST /chat: req.body
  gwPc,           \* the handler: "idle", "start", "getTools", "invoke", "close", "done"
  userPrompt,     \* the handler's userPrompt
  forwarded,      \* the prompts given to the graph (app.invoke)
  finalContent,   \* the content of the final message, once the graph returned
  thrown,         \* what the agent threw
  res,            \* the responses sent
  gwClient,       \* the request's MCP client: "none", "open" or "closed"
  mounted,        \* ChatContainer: the mount effect has run
  threadId,       \* ChatContainer state
  messages,       \* ChatContainer state
  isLoading,      \* ChatContainer state
  error,          \* ChatContainer state: <<>> (null) or <<the text>>
  inflight,       \* the calls of ChatAPI.sendMessage(content, threadId) that have not
                  \* settled, each with the body it posted
  now,            \* Date.now()
  event,          \* history: the handler that ran last
  rawContent,     \* the content of a final message, given to both extractions
  extracted,      \* <<>>, or what extractMessageContent and runChatExample made of it
  wfMessages,     \* the agent workflow: state.messages
  wfNode,         \* the node to run next: "idle", "llm", "tools", "end", "failed"
  wfSteps,        \* the steps the run has taken
  wfLast          \* history: the node that ran last ("start" before the first)

adapterVars == <<instance, nObj, isInitialized, workflow, mcpClient, initPromise,
                 nAtt, attObj, attState, attCause, client, callers, last, lastCause,
                 cleanedUp>>
validatorVars == <<body, vres>>
sanitizerVars == <<text, out>>
gatewayVars == <<reqBody, gwPc, userPrompt, forwarded, finalContent, thrown, res, gwClient>>
uiVars == <<mounted, threadId, messages, isLoading, error, inflight, now, event>>
extractVars == <<rawContent, extracted>>
workflowVars == <<wfMessages, wfNode, wfSteps, wfLast>>

vars == <<adapterVars, validatorVars, sanitizerVars, gatewayVars, uiVars, extractVars,
         workflowVars>>

\* What each part leaves alone.
notAdapter   == <<validatorVars, sanitizerVars, gatewayVars, uiVars, extractVars, workflowVars>>
notValidator == <<adapterVars, sanitizerVars, gatewayVars, uiVars, extractVars, workflowVars>>
notSanitizer == <<adapterVars, validatorVars, gatewayVars, uiVars, extractVars, workflowVars>>
notGateway   == <<adapterVars, validatorVars, sanitizerVars, uiVars, extractVars, workflowVars>>
notUI        == <<adapterVars, validatorVars, sanitizerVars, gatewayVars, extractVars, workflowVars>>
notExtract   == <<adapterVars, validatorVars, sanitizerVars, gatewayVars, uiVars, workflowVars>>
notWorkflow  == <<adapterVars, validatorVars, sanitizerVars, gatewayVars, uiVars, extractVars>>

\* A suspended call: the await it is at ("awaitInit", "awaitInvoke",
\* "awaitClose"), its operation, its `this`, the attempt (or client) whose
\* promise it awaits, and a history field for the calls inside initialize:
\* whether a cleanup ran since the call was made.
Calls == BagToSet(callers)

Call(at, k, o, x) ==
  [pc |-> at, op |-> k, self |-> o, awaiting |-> x,
   cleanupSince |-> at = "awaitInit" /\ \E c \in Calls : c.pc = "awaitClose" /\ c.self = o]

AdapterInit ==
  /\ instance = 0
  /\ nObj = 0
  /\ isInitialized = [o \in Objs |-> FALSE]
  /\ workflow = [o \in Objs |-> 0]
  /\ mcpClient = [o \in Objs |-> 0]
  /\ initPromise = [o \in Objs |-> 0]
  /\ nAtt = 0
  /\ attObj = [a \in Atts |-> 0]
  /\ attState = [a \in Atts |-> "none"]
  /\ attCause = [a \in Atts |-> NoCause]
  /\ client = [a \in Atts |-> "none"]
  /\ callers = EmptyBag
  /\ last = NoResult
  /\ lastCause = NoCause
  /\ cleanedUp = [o \in Objs |-> FALSE]

\* Nothing given to the validator, nothing given to the sanitizer.
ValidatorIdle == body = OtherBody(Undefined) /\ vres = NotValidated
SanitizerIdle == text = <<>> /\ out = <<>>

\* Nothing given to the extractions; no run of the agent workflow.
ExtractIdle == rawContent = UndefinedValue /\ extracted = <<>>
WorkflowIdle == wfMessages = <<>> /\ wfNode = "idle" /\ wfSteps = 0 /\ wfLast = "start"

\* No request received.
GatewayIdle ==
  /\ reqBody = ObjectBody(Undefined, Undefined)
  /\ gwPc = "idle"
  /\ userPrompt = Undefined
  /\ forwarded = <<>> /\ finalContent = <<>> /\ thrown = <<>> /\ res = <<>>
  /\ gwClient = "none"

\* ChatContainer as first rendered: the initial values of its useState calls
UIInit ==
  /\ mounted = FALSE
  /\ threadId = EmptyId
  /\ messages = <<>>
  /\ isLoading = FALSE
  /\ error = <<>>
  /\ inflight = {}
  /\ now = 0
  /\ event = "none"

Init ==
  /\ AdapterInit
  /\ ValidatorIdle
  /\ SanitizerIdle
  /\ GatewayIdle
  /\ UIInit
  /\ ExtractIdle
  /\ WorkflowIdle

\* A caller whose awaited promise has settled: its continuation is a queued
\* microtask, which runs before the event loop takes any other task.
Resumable(r) == r.pc = "awaitInit" /\ attState[r.awaiting] # "pending"
NoMicrotask == \A r \in Calls : ~Resumable(r)

\* --------------------------------------------------------------- helpers
objVars  == <<isInitialized, workflow, mcpClient, initPromise>>
attVars  == <<nAtt, attObj, attState, attCause>>
instVars == <<instance, nObj>>

\* Room for one more concurrent call.
CanCall == BagCardinality(callers) < NProcs

Suspend(B, r) == B (+) SetToBag({r})
Resume(B, r)  == B (-) SetToBag({r})

\* No operation ended in this step.
NoReturn == last' = NoResult /\ lastCause' = NoCause

\* The calls that are inside initialize on object o learn that a cleanup ran.
Mark(r, o) ==
  IF r.pc = "awaitInit" /\ r.self = o THEN [r EXCEPT !.cleanupSince = TRUE] ELSE r
NoteCleanup(B, o) ==
  LET Copies(x) == IF x \in DOMAIN B THEN B[x] ELSE 0
      Unmarked(d) == [d EXCEPT !.cleanupSince = FALSE]
  IN [d \in {Mark(r, o) : r \in DOMAIN B} |->
        IF d.pc = "awaitInit" /\ d.self = o
        THEN Copies(d) + Copies(Unmarked(d))
        ELSE Copies(d)]

\* ChatService._initialize up to its first await: the client is constructed,
\* stored in this.mcpClient, and getTools is called on it.
StartInitialize(o, a) ==
  /\ mcpClient' = [mcpClient EXCEPT ![o] = a]
  /\ client' = [client EXCEPT ![a] = "open"]
  /\ nAtt' = a
  /\ attObj' = [attObj EXCEPT ![a] = o]
  /\ attState' = [attState EXCEPT ![a] = "pending"]
  /\ UNCHANGED attCause

\* ChatService.initialize: "done" (already initialized), "join" (return the
\* pending promise) or "start" (a new _initialize run).
InitializeBranch(o) ==
  IF isInitialized[o] THEN "done"
  ELSE IF initPromise[o] # 0 THEN "join"
  ELSE "start"

\* ChatService.initialize where it does not return at once, called inside
\* operation k: the caller awaits the promise it returns.
initialize(o, k) ==
  IF InitializeBranch(o) = "join"
  THEN /\ callers' = Suspend(callers, Call("awaitInit", k, o, initPromise[o]))
       /\ UNCHANGED <<objVars, attVars, client>>
  ELSE /\ nAtt < MaxAtt
       /\ StartInitialize(o, nAtt + 1)
       /\ initPromise' = [initPromise EXCEPT ![o] = nAtt + 1]
       /\ callers' = Suspend(callers, Call("awaitInit", k, o, nAtt + 1))
       /\ UNCHANGED <<isInitialized, workflow>>

\* ---------------------------------------------------------------- actions
\* getInstance, had it constructed an object whenever it is given a config
GetInstance_AlwaysNew(hasConfig) ==
  /\ NoMicrotask
  /\ IF hasConfig
     THEN /\ nObj < MaxObj
          /\ nObj' = nObj + 1
          /\ instance' = nObj + 1
          /\ last' = Returned("getInstance")
     ELSE /\ last' = IF instance = 0
                     THEN Rejected("getInstance",
                            Err(<<"ChatService must be initialized with config on first use">>))
                     ELSE Returned("getInstance")
          /\ UNCHANGED instVars
  /\ lastCause' = NoCause
  /\ UNCHANGED <<objVars, attVars, client, callers, cleanedUp>>
  /\ UNCHANGED notAdapter

\* ChatService.getInstance(config?)
GetInstance(hasConfig) ==
  /\ NoMicrotask
  /\ IF instance = 0
     THEN IF ~hasConfig
          THEN /\ last' = Rejected("getInstance",
                      Err(<<"ChatService must be initialized with config on first use">>))
               /\ UNCHANGED instVars
          ELSE /\ nObj < MaxObj
               /\ nObj' = nObj + 1
               /\ instance' = nObj + 1
               /\ last' = Returned("getInstance")
     ELSE /\ last' = Returned("getInstance")
          /\ UNCHANGED instVars
  /\ lastCause' = NoCause
  /\ UNCHANGED <<objVars, attVars, client, callers, cleanedUp>>
  /\ UNCHANGED notAdapter

\* A call of initialize on the instance
Initialize ==
  /\ CanCall /\ instance # 0 /\ NoMicrotask
  /\ LET o == instance IN
       /\ cleanedUp' = [cleanedUp EXCEPT ![o] = FALSE]
       /\ IF InitializeBranch(o) = "done"
          THEN /\ last' = Returned("initialize")
               /\ lastCause' = NoCause
               /\ UNCHANGED <<objVars, attVars, client, callers>>
          ELSE /\ initialize(o, "initialize")
               /\ NoReturn
  /\ UNCHANGED instVars
  /\ UNCHANGED notAdapter

\* A call of processChat on the instance, up to its first pending await
ProcessChat ==
  /\ CanCall /\ instance # 0 /\ NoMicrotask
  /\ LET o == instance IN
       /\ cleanedUp' = [cleanedUp EXCEPT ![o] = FALSE]
       /\ IF InitializeBranch(o) = "done"
          THEN /\ IF workflow[o] = 0
                  THEN /\ last' = ChatFailure(WorkflowNotInitialized)
                       /\ lastCause' = WorkflowNotInitialized
                       /\ UNCHANGED callers
                  ELSE /\ callers' = Suspend(callers, Call("awaitInvoke", "processChat", o, 0))
                       /\ NoReturn
               /\ UNCHANGED <<objVars, attVars, client>>
          ELSE /\ initialize(o, "processChat")
               /\ NoReturn
  /\ UNCHANGED instVars
  /\ UNCHANGED notAdapter

\* The rest of _initialize, once getTools has settled: the tools it resolved
\* with (some, or none), or the value it rejected with.
InitializeSettles(a) ==
  /\ attState[a] = "pending" /\ NoMicrotask
  /\ LET o == attObj[a] IN
     \/ /\ workflow' = [workflow EXCEPT ![o] = 1]
        /\ isInitialized' = [isInitialized EXCEPT ![o] = TRUE]
        /\ attState' = [attState EXCEPT ![a] = "ok"]
        /\ UNCHANGED <<initPromise, attCause>>
     \/ \E e \in ExternalThrows \cup {NoToolsError} :
        /\ initPromise' = [initPromise EXCEPT ![o] = 0]
        /\ attState' = [attState EXCEPT ![a] = "failed"]
        /\ attCause' = [attCause EXCEPT ![a] = e]
        /\ UNCHANGED <<workflow, isInitialized>>
  /\ NoReturn
  /\ UNCHANGED <<instVars, mcpClient, nAtt, attObj, client, callers, cleanedUp>>
  /\ UNCHANGED notAdapter

\* The continuation of a caller awaiting initialize: initialize's own caller
\* gets the outcome; processChat goes on to invoke the workflow, or catches.
InitializeReturns(r) ==
  /\ r \in Calls /\ Resumable(r)
  /\ LET a == r.awaiting
         o == r.self
         rest == Resume(callers, r)
     IN
       /\ IF r.op = "initialize"
          THEN /\ last' = IF attState[a] = "ok" THEN Returned("initialize")
                          ELSE Rejected("initialize", InitFailure(attCause[a]))
               /\ lastCause' = attCause[a]
               /\ callers' = rest
          ELSE IF attState[a] = "failed"
          THEN /\ last' = ChatFailure(InitFailure(attCause[a]))
               /\ lastCause' = attCause[a]
               /\ callers' = rest
          ELSE IF workflow[o] = 0
          THEN /\ last' = ChatFailure(WorkflowNotInitialized)
               /\ lastCause' = WorkflowNotInitialized
               /\ callers' = rest
          ELSE /\ callers' = Suspend(rest, Call("awaitInvoke", "processChat", o, 0))
               /\ NoReturn
       \* the attempt is history once the last caller that awaited it has resumed
       /\ IF \E q \in BagToSet(rest) : q.pc = "awaitInit" /\ q.awaiting = a
          THEN UNCHANGED <<attState, attCause>>
          ELSE /\ attState' = [attState EXCEPT ![a] = "done"]
               /\ attCause' = [attCause EXCEPT ![a] = NoCause]
  /\ UNCHANGED <<instVars, objVars, nAtt, attObj, client, cleanedUp>>
  /\ UNCHANGED notAdapter

\* The rest of processChat, once workflow.invoke has settled.
InvokeSettles(r) ==
  /\ r \in Calls /\ r.pc = "awaitInvoke" /\ NoMicrotask
  /\ \/ \E c \in FinalContents :
          /\ last' = ChatSuccess(extractMessageContent(c))
          /\ lastCause' = NoCause
     \/ \E e \in ExternalThrows :
          /\ last' = ChatFailure(e)
          /\ lastCause' = e
  /\ callers' = Resume(callers, r)
  /\ UNCHANGED <<instVars, objVars, attVars, client, cleanedUp>>
  /\ UNCHANGED notAdapter

\* The state reset at the end of ChatService.cleanup
Reset(o) ==
  /\ isInitialized' = [isInitialized EXCEPT ![o] = FALSE]
  /\ workflow' = [workflow EXCEPT ![o] = 0]
  /\ mcpClient' = [mcpClient EXCEPT ![o] = 0]
  /\ initPromise' = [initPromise EXCEPT ![o] = 0]

\* ChatService.cleanup on object o, called as operation k, up to the await
\* of close(), or to its end when there is no client to close.
cleanup(o, k) ==
  IF mcpClient[o] # 0
  THEN /\ callers' = Suspend(NoteCleanup(callers, o), Call("awaitClose", k, o, mcpClient[o]))
       /\ NoReturn
       /\ UNCHANGED <<client, objVars, cleanedUp, instance>>
  ELSE /\ Reset(o)
       /\ cleanedUp' = [cleanedUp EXCEPT ![o] = TRUE]
       /\ callers' = NoteCleanup(callers, o)
       /\ last' = Returned(k)
       /\ lastCause' = NoCause
       /\ instance' = IF k = "destroyInstance" THEN 0 ELSE instance
       /\ UNCHANGED client

Cleanup ==
  /\ CanCall /\ instance # 0 /\ NoMicrotask
  /\ cleanup(instance, "cleanup")
  /\ UNCHANGED <<nObj, attVars>>
  /\ UNCHANGED notAdapter

\* ChatService.destroyInstance
DestroyInstance ==
  /\ CanCall /\ NoMicrotask
  /\ IF instance # 0
     THEN cleanup(instance, "destroyInstance")
     ELSE /\ last' = Returned("destroyInstance")
          /\ lastCause' = NoCause
          /\ UNCHANGED <<instance, objVars, client, callers, cleanedUp>>
  /\ UNCHANGED <<nObj, attVars>>
  /\ UNCHANGED notAdapter

\* The rest of cleanup (and of destroyInstance), once close() has settled.
CloseSettles(r) ==
  /\ r \in Calls /\ r.pc = "awaitClose" /\ NoMicrotask
  /\ LET o == r.self IN
     /\ \/ /\ client' = [client EXCEPT ![r.awaiting] = "none"]
           /\ Reset(o)
           /\ cleanedUp' = [cleanedUp EXCEPT ![o] = TRUE]
           /\ last' = Returned(r.op)
           /\ lastCause' = NoCause
           /\ instance' = IF r.op = "destroyInstance" THEN 0 ELSE instance
        \/ \E e \in ExternalThrows :
           /\ last' = Rejected(r.op, e)
           /\ lastCause' = e
           /\ UNCHANGED <<client, objVars, cleanedUp, instance>>
     /\ callers' = NoteCleanup(Resume(callers, r), o)
  /\ UNCHANGED <<nObj, attVars>>
  /\ UNCHANGED notAdapter

\* The shapes of the suspended calls, by the await they are at.
InitCalls ==
  [pc : {"awaitInit"}, op : {"initialize", "processChat"}, self : Objs,
   awaiting : Atts, cleanupSince : BOOLEAN]
InvokeCalls ==
  [pc : {"awaitInvoke"}, op : {"processChat"}, self : Objs,
   awaiting : {0}, cleanupSince : {FALSE}]
CloseCalls ==
  [pc : {"awaitClose"}, op : {"cleanup", "destroyInstance"}, self : Objs,
   awaiting : Atts, cleanupSince : {FALSE}]
AllCalls == InitCalls \cup InvokeCalls \cup CloseCalls

Next ==
  \/ \E hasConfig \in BOOLEAN : GetInstance(hasConfig)
  \/ Initialize
  \/ ProcessChat
  \/ \E a \in Atts : InitializeSettles(a)
  \/ \E r \in InitCalls : InitializeReturns(r)
  \/ \E r \in InvokeCalls : InvokeSettles(r)
  \/ Cleanup
  \/ DestroyInstance
  \/ \E r \in CloseCalls : CloseSettles(r)

Spec == Init /\ [][Next]_vars

TypeOK ==
  /\ instance \in 0..MaxObj /\ nObj \in 0..MaxObj /\ nAtt \in 0..MaxAtt
  /\ \A o \in Objs : workflow[o] \in 0..1 /\ mcpClient[o] \in 0..MaxAtt
                     /\ initPromise[o] \in 0..MaxAtt
  /\ Calls \subseteq AllCalls
  /\ BagCardinality(callers) <= NProcs


\* validateChatRequest applied to any body
ValidatorInit ==
  /\ AdapterInit
  /\ UIInit
  /\ ExtractIdle
  /\ WorkflowIdle
  /\ SanitizerIdle
  /\ GatewayIdle
  /\ body \in Bodies
  /\ vres = NotValidated

Validate ==
  /\ ~vres.ran
  /\ vres' = validateChatRequest(body)
  /\ UNCHANGED <<body, notValidator>>

ValidatorNext == Validate

ValidatorSpec == ValidatorInit /\ [][ValidatorNext]_vars

\* sanitizePrompt applied to any string, and to its own result
SanitizerInit ==
  /\ AdapterInit
  /\ UIInit
  /\ ExtractIdle
  /\ WorkflowIdle
  /\ ValidatorIdle
  /\ GatewayIdle
  /\ text \in SanitizeInputs
  /\ out = <<>>

Sanitize ==
  /\ Len(out) < 2
  /\ out' = Append(out, sanitizePrompt(IF out = <<>> THEN text ELSE out[Len(out)]))
  /\ UNCHANGED <<text, notSanitizer>>

SanitizerNext == Sanitize

SanitizerSpec == SanitizerInit /\ [][SanitizerNext]_vars

\* ------------------------------------------------ the agent workflow
\* One run of the compiled graph, from START to END or to a throw
WorkflowInit ==
  /\ AdapterInit
  /\ UIInit
  /\ ValidatorIdle
  /\ SanitizerIdle
  /\ GatewayIdle
  /\ ExtractIdle
  /\ wfMessages = <<HumanMessage>>
  /\ wfNode = "llm"
  /\ wfSteps = 0
  /\ wfLast = "start"

\* The llm node returns the model's response, which is appended to the
\* messages, and the conditional edge chooses the next node.
LlmStep ==
  /\ wfNode = "llm" /\ wfSteps < RECURSION_LIMIT
  /\ \E n \in 0..MaxToolCalls : wfMessages' = Append(wfMessages, AIMessage(n))
  /\ wfNode' = shouldContinue(wfMessages')
  /\ wfSteps' = wfSteps + 1
  /\ wfLast' = "llm"
  /\ UNCHANGED notWorkflow

\* model.invoke throws
LlmThrows ==
  /\ wfNode = "llm" /\ wfSteps < RECURSION_LIMIT
  /\ wfNode' = "failed"
  /\ wfSteps' = wfSteps + 1
  /\ wfLast' = "llm"
  /\ UNCHANGED <<wfMessages, notWorkflow>>

\* The tools node appends one tool message for each tool call of the last
\* message; its edge leads to llm.
ToolsStep ==
  /\ wfNode = "tools" /\ wfSteps < RECURSION_LIMIT
  /\ wfMessages' = wfMessages \o
       [i \in 1..wfMessages[Len(wfMessages)].toolCalls |-> ToolMessage]
  /\ wfNode' = "llm"
  /\ wfSteps' = wfSteps + 1
  /\ wfLast' = "tools"
  /\ UNCHANGED notWorkflow

\* The run has taken recursionLimit steps and has not reached END: the
\* graph throws.
RecursionLimitReached ==
  /\ wfNode \in {"llm", "tools"} /\ wfSteps = RECURSION_LIMIT
  /\ wfNode' = "failed"
  /\ UNCHANGED <<wfMessages, wfSteps, wfLast, notWorkflow>>

WorkflowNext ==
  \/ LlmStep
  \/ LlmThrows
  \/ ToolsStep
  \/ RecursionLimitReached

WorkflowSpec == WorkflowInit /\ [][WorkflowNext]_vars

\* ------------------------------------------------ the two extractions
\* One content, given to ChatService.extractMessageContent and to the inline
\* extraction of runChatExample
ExtractInit ==
  /\ AdapterInit
  /\ UIInit
  /\ ValidatorIdle
  /\ SanitizerIdle
  /\ GatewayIdle
  /\ WorkflowIdle
  /\ rawContent \in ContentValues
  /\ extracted = <<>>

Extract ==
  /\ extracted = <<>>
  /\ extracted' = <<extractMessageContent(ContentOf(rawContent)),
                    finalResponse(ContentOf(rawContent))>>
  /\ UNCHANGED <<rawContent, notExtract>>

ExtractNext == Extract

ExtractSpec == ExtractInit /\ [][ExtractNext]_vars

\* ------------------------------------------------------- POST /chat
\* One request, handled from its arrival to its response
GatewayInit ==
  /\ AdapterInit
  /\ UIInit
  /\ ExtractIdle
  /\ WorkflowIdle
  /\ ValidatorIdle
  /\ SanitizerIdle
  /\ reqBody \in GatewayBodies
  /\ gwPc = "start"
  /\ userPrompt = Undefined
  /\ forwarded = <<>> /\ finalContent = <<>> /\ thrown = <<>> /\ res = <<>>
  /\ gwClient = "none"

\* The handler up to its first pending await: the body is checked, and either
\* the 400 response is sent and the handler returns, or runChatExample is
\* called and runs up to getTools.
PostChat ==
  /\ gwPc = "start"
  /\ userPrompt' = FirstTruthy(reqBody.prompt, reqBody.message)
  /\ IF BadPrompt(userPrompt')
     THEN /\ res' = Append(res, BadRequest)
          /\ gwPc' = "done"
     ELSE /\ gwPc' = "getTools"
          /\ UNCHANGED res
  /\ UNCHANGED <<reqBody, forwarded, finalContent, thrown, gwClient, notGateway>>

\* The catch blocks of runChatExample (rethrow) and of the handler
Catch(e) ==
  /\ thrown' = Append(thrown, e)
  /\ res' = Append(res, ServerError(e))
  /\ gwPc' = "done"

\* The API key check, `new MultiServerMCPClient` and getTools: the check
\* throws before the client is made, or getTools throws or finds no tool, or
\* the graph is built and invoked with the prompt.
ToolsSettle ==
  /\ gwPc = "getTools"
  /\ \/ /\ forwarded' = Append(forwarded, userPrompt)
        /\ gwPc' = "invoke"
        /\ gwClient' = "open"
        /\ UNCHANGED <<thrown, res>>
     \/ \E e \in SetupThrows :
        /\ Catch(e)
        /\ gwClient' = IF e = MissingApiKey THEN "none" ELSE "open"
        /\ UNCHANGED forwarded
  /\ UNCHANGED <<reqBody, userPrompt, finalContent, notGateway>>

\* app.invoke settles: the final content is extracted and client.close()
\* is awaited, or the graph threw.
GraphSettles ==
  /\ gwPc = "invoke"
  /\ \/ \E c \in GatewayContents :
        /\ finalContent' = Append(finalContent, c)
        /\ gwPc' = "close"
        /\ UNCHANGED <<thrown, res>>
     \/ \E e \in ExternalThrows :
        /\ Catch(e)
        /\ UNCHANGED finalContent
  /\ UNCHANGED <<reqBody, userPrompt, forwarded, gwClient, notGateway>>

\* client.close() settles: runChatExample returns the response text and the
\* handler sends it, or close threw.
ClientCloseSettles ==
  /\ gwPc = "close"
  /\ \/ /\ res' = Append(res, ChatOk(userPrompt, finalResponse(finalContent[1])))
        /\ gwPc' = "done"
        /\ gwClient' = "closed"
        /\ UNCHANGED thrown
     \/ \E e \in ExternalThrows :
        /\ Catch(e)
        /\ gwClient' \in {"open", "closed"}
  /\ UNCHANGED <<reqBody, userPrompt, forwarded, finalContent, notGateway>>

GatewayNext ==
  \/ PostChat
  \/ ToolsSettle
  \/ GraphSettles
  \/ ClientCloseSettles

GatewaySpec == GatewayInit /\ [][GatewayNext]_vars

\* ------------------------------------------------------- ChatContainer
\* useEffect(() => setThreadId(generateId()), [])
Mount ==
  /\ ~mounted
  /\ mounted' = TRUE
  /\ \E rnd \in Rnds : threadId' = generateId(rnd, now)
  /\ event' = "mount"
  /\ UNCHANGED <<messages, isLoading, error, inflight, now, notUI>>

\* A millisecond passes
Tick ==
  /\ now < MaxNow
  /\ now' = now + 1
  /\ UNCHANGED <<mounted, threadId, messages, isLoading, error, inflight, event, notUI>>

\* handleSendMessage up to the await of ChatAPI.sendMessage (while the
\* transcript has room for the message and for the outcome)
handleSendMessage(content) ==
  /\ Len(messages) + 2 <= MaxMsgs
  /\ error' = <<>>
  /\ \E rnd \in Rnds :
       LET userMessage == Message(generateId(rnd, now), "user", content, "sent") IN
         /\ messages' = Append(messages, userMessage)
         /\ inflight' = inflight \cup
              {[userId |-> userMessage.id, content |-> content, threadId |-> threadId,
                body |-> RequestBody(content)]}
  /\ isLoading' = TRUE

\* MessageInput.handleSend, had the input not been disabled while loading
Send_WhileLoading ==
  /\ mounted
  /\ \E content \in UserTexts : handleSendMessage(content)
  /\ event' = "send"
  /\ UNCHANGED <<mounted, threadId, now, notUI>>

\* MessageInput.handleSend: the send button or Enter, unless disabled
Send ==
  /\ mounted /\ ~isLoading
  /\ \E content \in UserTexts : handleSendMessage(content)
  /\ event' = "send"
  /\ UNCHANGED <<mounted, threadId, now, notUI>>

\* handleRetry, had it resent a text of its own choice
Retry_AnyText ==
  /\ mounted /\ error # <<>>
  /\ \E content \in UserTexts : handleSendMessage(content)
  /\ event' = "retry"
  /\ UNCHANGED <<mounted, threadId, now, notUI>>

\* handleRetry: the Retry button, shown while error is set
Retry ==
  /\ mounted /\ error # <<>>
  /\ IF LastUserMessage(messages) # <<>>
     THEN handleSendMessage(LastUserMessage(messages)[1].content)
     ELSE UNCHANGED <<messages, isLoading, error, inflight>>
  /\ event' = "retry"
  /\ UNCHANGED <<mounted, threadId, now, notUI>>

\* clearChat, had it issued a thread identifier as startNewChat does
clearChat_NewThread ==
  /\ messages' = <<>>
  /\ error' = <<>>
  /\ \E rnd \in Rnds : threadId' = generateId(rnd, now)

\* The state changes of clearChat
clearChat ==
  /\ messages' = <<>>
  /\ error' = <<>>
  /\ UNCHANGED threadId

\* The Clear button
ClearChat ==
  /\ mounted
  /\ clearChat
  /\ event' = "clear"
  /\ UNCHANGED <<mounted, isLoading, inflight, now, notUI>>

\* startNewChat: the New Chat button
StartNewChat ==
  /\ mounted
  /\ \E rnd \in Rnds : threadId' = generateId(rnd, now)
  /\ messages' = <<>>
  /\ error' = <<>>
  /\ event' = "newChat"
  /\ UNCHANGED <<mounted, isLoading, inflight, now, notUI>>

\* The rest of handleSendMessage, once ChatAPI.sendMessage has settled
SendSettlesWith(call, r) ==
  \E rnd \in Rnds :
    /\ call \in inflight
    /\ inflight' = inflight \ {call}
    /\ IF r.settled = "resolved" /\ r.success
       THEN /\ messages' = Append(messages,
                  Message(generateId(rnd, now), "assistant", r.response, "sent"))
            /\ UNCHANGED error
       ELSE LET errorMessage == ErrorMessage(Caught(r)) IN
            /\ messages' = Append(UpdateStatus(messages, call.userId, "error"),
                  Message(generateId(rnd, now), "system",
                          <<"Error: ">> \o errorMessage, "sent"))
            /\ error' = <<errorMessage>>
    /\ isLoading' = FALSE
    /\ event' = "settled"
    /\ UNCHANGED <<mounted, threadId, now, notUI>>

SendSettles == \E call \in inflight, r \in ApiOutcomes : SendSettlesWith(call, r)

UINext ==
  \/ Mount
  \/ Tick
  \/ Send
  \/ Retry
  \/ ClearChat
  \/ StartNewChat
  \/ SendSettles

UISpec == Init /\ [][UINext]_vars

\* The adapter on the runs that start at most SoleAtt _initialize runs, with
\* any number of getInstance and destroyInstance calls among the other calls.
SingletonNext ==
  \/ \E hasConfig \in BOOLEAN : GetInstance(hasConfig)
  \/ Initialize /\ nAtt' <= SoleAtt
  \/ ProcessChat /\ nAtt' <= SoleAtt
  \/ \E a \in Atts : InitializeSettles(a)
  \/ \E r \in InitCalls : InitializeReturns(r)
  \/ \E r \in InvokeCalls : InvokeSettles(r)
  \/ Cleanup
  \/ DestroyInstance
  \/ \E r \in CloseCalls : CloseSettles(r)

SingletonSpec == Init /\ [][SingletonNext]_vars

\* The adapter with the continuation of a settled initialize always run (the
\* microtask queue is drained), on the runs that start at most FairAtt
\* _initialize runs and construct at most FairObj objects.
FairNext ==
  \/ \E hasConfig \in BOOLEAN : GetInstance(hasConfig) /\ nObj' <= FairObj
  \/ Initialize /\ nAtt' <= FairAtt
  \/ ProcessChat /\ nAtt' <= FairAtt
  \/ \E a \in Atts : InitializeSettles(a)
  \/ \E r \in InitCalls : InitializeReturns(r)
  \/ \E r \in InvokeCalls : InvokeSettles(r)
  \/ Cleanup
  \/ DestroyInstance
  \/ \E r \in CloseCalls : CloseSettles(r)

FairSpec ==
  Init /\ [][FairNext]_vars /\ WF_vars(\E r \in InitCalls : InitializeReturns(r))

\* ------------------------------------------------------------- properties
Min(x, y) == IF x <= y THEN x ELSE y

\* The _initialize runs started on object o, the n-th run overall and the
\* later ones.
StartedFrom(o, n) == {a \in Atts : a >= n /\ attState[a] # "none" /\ attObj[a] = o}

\* The clients constructed and not closed.
NotClosed == {a \in Atts : client[a] = "open"}

\* Two calls suspended inside initialize on the same object, neither of
\* which has seen a cleanup run since it called.
Concurrent(r1, r2) ==
  /\ r1 \in Calls /\ r2 \in Calls
  /\ r1 # r2 \/ callers[r1] >= 2
  /\ r1.pc = "awaitInit" /\ r2.pc = "awaitInit"
  /\ r1.self = r2.self
  /\ ~r1.cleanupSince /\ ~r2.cleanupSince

\* C1: calls of initialize (direct or through processChat) that are pending
\* together, with no cleanup since the first of them was made, await the
\* same attempt, and that attempt is the only _initialize run (one client,
\* one getTools call) started since.
C1_SingleInitialization ==
  \A r1, r2 \in Calls :
    Concurrent(r1, r2) =>
      /\ r1.awaiting = r2.awaiting
      /\ StartedFrom(r1.self, Min(r1.awaiting, r2.awaiting)) = {r1.awaiting}

\* C2: at most one _initialize run of an adapter is in flight.
C2_OneAttemptInFlight ==
  \A o \in Objs : Cardinality({a \in Atts : attState[a] = "pending" /\ attObj[a] = o}) <= 1

\* C3: when an attempt fails, the adapter is left with isInitialized false
\* and initPromise null, so that the next initialize starts a new attempt.
C3_FailureLeavesClean ==
  [][\A a \in Atts :
       (attState[a] = "pending" /\ attState'[a] = "failed") =>
          /\ ~isInitialized'[attObj[a]]
          /\ initPromise'[attObj[a]] = 0]_vars

\* C4: from the return of cleanup to the next call of initialize the adapter
\* is uninitialized.
Uninitialized(o) ==
  ~isInitialized[o] /\ workflow[o] = 0 /\ mcpClient[o] = 0 /\ initPromise[o] = 0

C4_CleanupResets == \A o \in Objs : cleanedUp[o] => Uninitialized(o)

\* C5: at most one MCP client is constructed and not yet closed.
C5_OneOpenClient == Cardinality(NotClosed) <= 1

\* C6: processChat never rejects; when its catch block caught a value, it
\* returned success false with an error text that contains the message of
\* the underlying cause; and a processChat call suspended in initialize
\* awaits an attempt that is still to settle or whose outcome it is about to
\* take.
C6_ProcessChatNeverRejects ==
  /\ last.kind = "processChat" => last.settled = "returned"
  /\ (last.kind = "processChat" /\ lastCause # NoCause) =>
        /\ ~last.success
        /\ last.error # <<>>
        /\ lastCause.isError => Contains(last.error, lastCause.message)
  /\ (last.kind = "processChat" /\ last.success) => lastCause = NoCause
  /\ \A r \in Calls :
        (r.op = "processChat" /\ r.pc = "awaitInit") =>
            attState[r.awaiting] \in {"pending", "ok", "failed"}

\* A processChat call waiting on a failed attempt.
WaitingOnFailure ==
  \E r \in Calls : r.op = "processChat" /\ r.pc = "awaitInit"
                   /\ attState[r.awaiting] = "failed"

C6_NonePending == WaitingOnFailure ~> (~WaitingOnFailure)

C6_ProcessChatReturnsFailure == []C6_ProcessChatNeverRejects /\ C6_NonePending

C6_Witness ==
  /\ last.kind = "processChat" /\ ~last.success
  /\ lastCause = Err(<<"ECONNREFUSED">>)
  /\ last.error = <<"ChatService initialization failed: ", "ECONNREFUSED">>
  /\ \E r \in Calls : r.op = "processChat" /\ r.pc = "awaitInit"
                      /\ attState[r.awaiting] = "failed"


\* ------------------------------------------------ validator properties
Elems(es) == {es[i] : i \in 1..Len(es)}

Present(v) == v.t # "undefined"
ValidText(v) ==
  /\ v.t = "string"
  /\ \E i \in 1..Len(v.s) : ~IsWhitespace(v.s[i].c)
  /\ Length(v.s) <= MAX_PROMPT_LENGTH
IsObjectBody(b) == b.t \in {"object", "array"}

\* C7 as stated: validation succeeds only when exactly one of prompt and
\* message is present and that one is a valid text.
C7_ExactlyOneField ==
  (vres.ran /\ vres.success) =>
     /\ Present(body.prompt) # Present(body.message)
     /\ Present(body.prompt) => ValidText(body.prompt)
     /\ Present(body.message) => ValidText(body.message)

\* C7 as amended: validation succeeds exactly when the body is an object, at
\* least one of prompt and message is present, and every one that is present
\* is a string, non-empty after trimming and within the maximum length.
C7_AtLeastOneField ==
  vres.ran =>
    (vres.success <=>
       /\ IsObjectBody(body)
       /\ Present(body.prompt) \/ Present(body.message)
       /\ Present(body.prompt) => ValidText(body.prompt)
       /\ Present(body.message) => ValidText(body.message))

C7_Witness ==
  /\ vres.ran /\ vres.success
  /\ Present(body.prompt) /\ Present(body.message)

\* C8 as stated: every prompt longer than the maximum fails with the length
\* error of prompt; every prompt of exactly the maximum length, message
\* absent, succeeds.
C8_LengthLimit ==
  (vres.ran /\ IsObjectBody(body) /\ body.prompt.t = "string") =>
     /\ Length(body.prompt.s) > MAX_PROMPT_LENGTH =>
           ~vres.success /\ CannotExceed("prompt") \in Elems(vres.errors)
     /\ (Length(body.prompt.s) = MAX_PROMPT_LENGTH /\ ~Present(body.message)) =>
           vres.success

\* C8 as amended: the same for the prompts that are not made of whitespace
\* only; a whitespace-only prompt fails with the cannot-be-empty error
\* whatever its length.
WhitespaceOnly(s) == \A i \in 1..Len(s) : IsWhitespace(s[i].c)

C8_LengthLimitOfText ==
  (vres.ran /\ IsObjectBody(body) /\ body.prompt.t = "string") =>
     /\ (Length(body.prompt.s) > MAX_PROMPT_LENGTH /\ ~WhitespaceOnly(body.prompt.s)) =>
           ~vres.success /\ CannotExceed("prompt") \in Elems(vres.errors)
     /\ (Length(body.prompt.s) = MAX_PROMPT_LENGTH /\ ~WhitespaceOnly(body.prompt.s)
           /\ ~Present(body.message)) =>
           vres.success
     /\ WhitespaceOnly(body.prompt.s) =>
           /\ ~vres.success
           /\ CannotBeEmpty("prompt") \in Elems(vres.errors)
           /\ CannotExceed("prompt") \notin Elems(vres.errors)

C8_Witness ==
  /\ vres.ran /\ body.prompt.t = "string"
  /\ Length(body.prompt.s) = MAX_PROMPT_LENGTH + 1
  /\ ~WhitespaceOnly(body.prompt.s)
  /\ vres.errors = <<CannotExceed("prompt")>>

C8_WitnessAtLimit ==
  /\ vres.ran /\ vres.success /\ ~Present(body.message)
  /\ body.prompt.t = "string" /\ Length(body.prompt.s) = MAX_PROMPT_LENGTH

\* C9 as stated: every body without prompt and without message fails with
\* the error that one of the two is required.
C9_NeitherField ==
  (vres.ran /\ ~Present(body.prompt) /\ ~Present(body.message)) =>
     ~vres.success /\ FieldRequired \in Elems(vres.errors)

\* C9 as amended: every body that is an object without prompt and without
\* message fails with the error that one of the two is required; a body that
\* is not an object fails with the body-must-be-an-object error alone.
C9_NeitherFieldOfObject ==
  (vres.ran /\ ~Present(body.prompt) /\ ~Present(body.message)) =>
     /\ ~vres.success
     /\ IsObjectBody(body) => FieldRequired \in Elems(vres.errors)
     /\ ~IsObjectBody(body) => vres.errors = <<BodyNotObject>>

C9_Witness ==
  /\ vres.ran /\ body.t = "object"
  /\ ~Present(body.prompt) /\ ~Present(body.message)
  /\ vres.errors = <<FieldRequired>>

\* C10: validateChatRequest never throws; it returns a success with its data
\* or a failure with at least one error.
C10_Total ==
  vres.ran =>
     /\ ~vres.threw
     /\ vres.success => (vres.errors = <<>> /\ vres.data =
                           [prompt |-> body.prompt, message |-> body.message])
     /\ ~vres.success => Len(vres.errors) >= 1

C10_Witness ==
  /\ vres.ran /\ body.t = "null"
  /\ ~vres.success /\ vres.errors = <<BodyNotObject>>

\* ------------------------------------------------ sanitizer properties
\* The text of a run sequence: adjacent runs of one character are one run.
RECURSIVE Canon(_)
Canon(s) ==
  IF Len(s) < 2 THEN s
  ELSE IF s[1].c = s[2].c
  THEN Canon(<<Run(s[1].c, s[1].n + s[2].n)>> \o SubSeq(s, 3, Len(s)))
  ELSE <<s[1]>> \o Canon(Tail(s))

\* C11: sanitizePrompt is idempotent: applied to its own result it returns
\* that result.
C11_Idempotent == Len(out) = 2 => Canon(out[2]) = Canon(out[1])

\* An input with whitespace to trim and to collapse, sanitized twice.
C11_Witness ==
  /\ Len(out) = 2 /\ Len(text) = 3
  /\ IsWhitespace(text[1].c) /\ ~IsWhitespace(text[2].c) /\ IsWhitespace(text[3].c)
  /\ out[1] = <<text[2]>>

\* The runs of s that remain: the characters that are not whitespace, and
\* the first run of every stretch of whitespace that has such a character
\* before it and after it.
Kept(s) ==
  {i \in 1..Len(s) :
     \/ ~IsWhitespace(s[i].c)
     \/ /\ i > 1 /\ ~IsWhitespace(s[i - 1].c)
        /\ \E j \in (i + 1)..Len(s) : ~IsWhitespace(s[j].c)}

\* s with every stretch of whitespace between two words as one space, and
\* nothing else changed.
SingleSpaced(s) ==
  LET Nth(k) == CHOOSE i \in Kept(s) : Cardinality({j \in Kept(s) : j <= i}) = k
  IN [k \in 1..Cardinality(Kept(s)) |->
        IF IsWhitespace(s[Nth(k)].c) THEN Run(" ", 1) ELSE s[Nth(k)]]

\* C12: sanitizePrompt returns the characters that are not whitespace in
\* their order and number, one space for every stretch of whitespace between
\* them, no whitespace at either end, and the empty string for the empty
\* string.
C12_CollapsesAndTrims ==
  Len(out) >= 1 =>
    /\ Canon(out[1]) = Canon(SingleSpaced(text))
    /\ Canon(SelectSeq(out[1], LAMBDA r : ~IsWhitespace(r.c)))
         = Canon(SelectSeq(text, LAMBDA r : ~IsWhitespace(r.c)))
    /\ out[1] # <<>> =>
         ~IsWhitespace(out[1][1].c) /\ ~IsWhitespace(out[1][Len(out[1])].c)
    /\ text = <<>> => out[1] = <<>>

\* Two words with two whitespace characters between them.
C12_Witness ==
  /\ Len(out) >= 1 /\ Len(text) = 3
  /\ ~IsWhitespace(text[1].c) /\ ~IsWhitespace(text[3].c)
  /\ text[2] = Run("\t", 2)
  /\ out[1] = <<text[1], Run(" ", 1), text[3]>>

\* -------------------------------------------------- gateway properties
\* C13: every prompt given to the agent runtime is the sanitized form of a
\* prompt of a request that passed validation: not empty after trimming,
\* within the maximum length, its whitespace collapsed and trimmed.
C13_ForwardsSanitized ==
  \A i \in 1..Len(forwarded) :
    /\ forwarded[i].t = "string"
    /\ Length(trim(forwarded[i].s)) > 0
    /\ Length(forwarded[i].s) <= MAX_PROMPT_LENGTH
    /\ \E v \in {reqBody.prompt, reqBody.message} :
         /\ v.t = "string" /\ FieldErrors("prompt", v) = <<>>
         /\ Canon(forwarded[i].s) = Canon(sanitizePrompt(v.s))

\* The handler's validation, stated on the body: the prompt is a string
\* that is not empty, or it is falsy and the message is such a string.
NonEmptyString(v) == v.t = "string" /\ Length(v.s) > 0
Falsy(v) == v.t \in {"undefined", "null"} \/ ~v.truthy
PassesValidation(b) ==
  \/ NonEmptyString(b.prompt)
  \/ Falsy(b.prompt) /\ NonEmptyString(b.message)

Submitted(b) == IF NonEmptyString(b.prompt) THEN b.prompt ELSE b.message

\* runChatExample returned (the graph returned and the client was closed).
AgentSucceeded == gwPc = "done" /\ finalContent # <<>> /\ thrown = <<>>

\* C15: when the agent call succeeds with a final content that is a string
\* c, the response has status 200, success true, the submitted prompt and c
\* as response.
C15_SuccessIs200 ==
  (AgentSucceeded /\ finalContent[1].kind = "string") =>
     /\ Len(res) = 1
     /\ res[1].status = 200
     /\ {"success", "prompt", "response"} \subseteq res[1].fields
     /\ res[1].success
     /\ res[1].prompt = Submitted(reqBody)
     /\ res[1].response = finalContent[1].text

\* The content "hello" for a prompt sent in the message field.
C15_Witness ==
  /\ AgentSucceeded /\ finalContent[1] = StrContent(<<"hello">>)
  /\ reqBody.prompt = Undefined /\ reqBody.message.t = "string"
  /\ res[1].status = 200 /\ res[1].response = <<"hello">>

\* C16: when the agent runtime throws, the response has a status that is
\* not 2xx and success false, and its message contains the message of what
\* was thrown (an Error; any other thrown value has no message).
C16_ThrowIsReported ==
  thrown # <<>> =>
     /\ gwPc = "done" /\ Len(res) = 1
     /\ res[1].status \notin 200..299
     /\ "success" \in res[1].fields /\ ~res[1].success
     /\ "message" \in res[1].fields /\ res[1].message # <<>>
     /\ thrown[1].isError => Contains(res[1].message, thrown[1].message)

\* The graph threw an Error after the prompt was given to it.
C16_Witness ==
  /\ thrown = <<Err(<<"ECONNREFUSED">>)>> /\ Len(forwarded) = 1 /\ finalContent = <<>>
  /\ res[1].status = 500 /\ res[1].message = <<"ECONNREFUSED">>

\* C17: every error response has success false and an error object with
\* message, code, statusCode and timestamp, whose statusCode is the status
\* sent: 400 for a validation failure, 500 or 503 for a failure at run time.
C17_OneEnvelope ==
  \A i \in 1..Len(res) :
    res[i].status \notin 200..299 =>
      /\ "success" \in res[i].fields /\ ~res[i].success
      /\ "error" \in res[i].fields /\ res[i].error.t = "object"
      /\ {"message", "code", "statusCode", "timestamp"} \subseteq res[i].error.fields
      /\ res[i].error.statusCode = res[i].status
      /\ res[i].status \in {400, 500, 503}
      /\ thrown = <<>> => res[i].status = 400

\* ------------------------------------------------ ChatContainer: properties
\* C18: New chat empties the transcript, clears the error state and leaves a
\* thread identifier different from the one held before.  (Identifiers are
\* compared as the pair generateId drew; the string it builds from the pair
\* can only collide more often.)
C18_NewChatFreshThread ==
  [][StartNewChat =>
       /\ messages' = <<>>
       /\ error' = <<>>
       /\ threadId' # threadId]_vars

SendOutcome(call, r) ==
  LET n == Len(messages) IN
    /\ isLoading' = FALSE
    /\ Len(messages') = n + 1
    /\ IF r.settled = "resolved" /\ r.success
       THEN /\ SubSeq(messages', 1, n) = messages
            /\ messages'[n + 1].role = "assistant"
            /\ messages'[n + 1].content = r.response
       ELSE /\ \E i \in 1..n : /\ messages[i].id = call.userId
                               /\ messages[i].role = "user"
                               /\ messages[i].content = call.content
                               /\ messages'[i].status = "error"
            /\ messages'[n + 1].role = "system"
            /\ messages'[n + 1].content = <<"Error: ">> \o ErrorMessage(Caught(r))
            /\ error' = <<ErrorMessage(Caught(r))>>

\* C20: a send appends a user message with status sent and sets the loading
\* flag before the gateway is called; when the call settles, on success one
\* assistant message with the response text is appended, on failure that user
\* message gets status error, one system message with the error text is
\* appended and the error state is set; either way the loading flag is cleared.
C20_SendThenOneOutcome ==
  [][/\ ((Send \/ Retry) /\ inflight' # inflight) =>
          /\ Len(messages') = Len(messages) + 1
          /\ messages'[Len(messages')].role = "user"
          /\ messages'[Len(messages')].status = "sent"
          /\ isLoading'
          /\ \E call \in inflight' \ inflight :
               /\ call.userId = messages'[Len(messages')].id
               /\ call.content = messages'[Len(messages')].content
     /\ \A call \in inflight, r \in ApiOutcomes :
          SendSettlesWith(call, r) => SendOutcome(call, r)]_vars

\* The requests issued in this step
Issued == inflight' \ inflight

\* C21: the UI issues a request only in a step of the send button or of the
\* retry button (the arrival of a failure issues none), and the prompt of a
\* request issued by retry is the content of the most recent user message of
\* the transcript.
C21_OnlyManualRequests ==
  [][/\ Issued # {} => (Send \/ Retry)
     /\ (Retry /\ ~Send) =>
          \A call \in Issued :
            \E i \in 1..Len(messages) :
              /\ messages[i].role = "user"
              /\ \A j \in (i + 1)..Len(messages) : messages[j].role # "user"
              /\ call.content = messages[i].content]_vars

\* Retry has resent the user message of a failed send: the transcript holds
\* the failed message and its copy, and the request is pending.
C21_Witness ==
  /\ event = "retry"
  /\ inflight # {}
  /\ \E i, j \in 1..Len(messages) :
       /\ i < j
       /\ messages[i].role = "user" /\ messages[i].status = "error"
       /\ messages[j].role = "user" /\ messages[j].status = "sent"
       /\ messages[j].content = messages[i].content
       /\ \A call \in inflight : call.content = messages[i].content

\* C22: the body of every request the UI issues carries the thread identifier
\* the chat container holds when it sends.
C22_RequestCarriesThread ==
  [][\A call \in Issued :
       /\ "threadId" \in DOMAIN call.body
       /\ call.body.threadId = threadId]_vars

\* C28: the UI has at most one request in flight; while one is in flight the
\* loading flag is set (the input cannot send) and the error state is clear
\* (retry is not offered).
C28_OneInFlight ==
  /\ Cardinality(inflight) <= 1
  /\ inflight # {} => (isLoading /\ error = <<>>)

\* A request is in flight after an earlier one has failed.
C28_Witness ==
  /\ Cardinality(inflight) = 1
  /\ isLoading
  /\ \E i \in 1..Len(messages) : messages[i].role = "system"

\* C29: when a response arrives, the transcript holds the user message of the
\* send that produced it (so every assistant or system message follows the
\* user message of its send), and the request was sent under the thread
\* identifier the container holds now.
C29_NoStaleResponse ==
  [][\A call \in inflight, r \in ApiOutcomes :
       SendSettlesWith(call, r) =>
         /\ \E i \in 1..Len(messages) :
              /\ messages[i].id = call.userId
              /\ messages[i].role = "user"
              /\ messages'[Len(messages')].role \in {"assistant", "system"}
         /\ call.threadId = threadId]_vars

\* ------------------------------------------------ extraction: properties
\* Texts joined by single spaces
RECURSIVE SpaceJoin(_)
SpaceJoin(ts) ==
  IF ts = <<>> THEN <<>>
  ELSE IF Len(ts) = 1 THEN ts[1]
  ELSE ts[1] \o <<" ">> \o SpaceJoin(Tail(ts))

NoResponseGenerated == <<"No response generated">>

\* C23: extractMessageContent returns a string content unchanged; for an
\* array, its parts joined by single spaces, string parts unchanged and other
\* parts JSON-encoded; for another truthy value, its string form; and the
\* fixed text exactly when the content is absent or a falsy non-string value.
C23_ExtractByShape ==
  extracted # <<>> =>
    /\ rawContent.t = "string" => extracted[1] = rawContent.s
    /\ rawContent.t = "array" =>
         extracted[1] = SpaceJoin([i \in 1..Len(rawContent.items) |->
                           IF rawContent.items[i].t = "string" THEN rawContent.items[i].s
                           ELSE JSONStringify(rawContent.items[i])])
    /\ (rawContent.t \notin {"string", "array"} /\ ToBoolean(rawContent)) =>
         extracted[1] = StringOf(rawContent)
    /\ extracted[1] = NoResponseGenerated <=>
         (rawContent.t \notin {"string", "array"} /\ ~ToBoolean(rawContent))

\* An array of a string part and an object part has been extracted.
C23_Witness ==
  /\ extracted # <<>>
  /\ rawContent = ArrayValue(<<StringValue(<<"a">>), ObjectValue(<<"x">>)>>)
  /\ extracted[1] = <<"a", " ", "{\"type\":", "\"", "x", "\"", "}">>

\* C25: ChatService.extractMessageContent and the inline extraction of
\* runChatExample return the same text for every content.
C25_ExtractionsAgree ==
  extracted # <<>> => extracted[1] = extracted[2]

\* Both have given the fixed text for an absent content.
C25_Witness ==
  /\ extracted = <<NoResponseGenerated, NoResponseGenerated>>
  /\ rawContent = UndefinedValue

\* ------------------------------------------------ workflow: properties
\* C24: after an llm step the next node is tools if and only if the last
\* message carries tool calls, and otherwise the run ends; after a tools step
\* the next node is llm; so a run ends normally only right after an llm step
\* whose message has no tool calls, and that message is the last one.
C24_Routing ==
  [][/\ LlmStep =>
          LET lastMessage == wfMessages'[Len(wfMessages')] IN
            /\ wfNode' = "tools" <=> lastMessage.toolCalls > 0
            /\ wfNode' = "end" <=> lastMessage.toolCalls = 0
     /\ ToolsStep => wfNode' = "llm"
     /\ (wfNode # "end" /\ wfNode' = "end") =>
          /\ LlmStep
          /\ wfLast' = "llm"
          /\ wfMessages'[Len(wfMessages')] = AIMessage(0)]_vars

\* A run has ended normally after the tools node ran at least once.
C24_Witness ==
  /\ wfNode = "end"
  /\ wfLast = "llm"
  /\ \E i \in 1..Len(wfMessages) : wfMessages[i].type = "tool"
  /\ wfMessages[Len(wfMessages)] = AIMessage(0)

\* ------------------------------------------------ the singleton: properties
\* C26: getInstance without a config throws when there is no instance and
\* changes nothing; with a config it constructs the instance only when there
\* is none; while there is an instance every getInstance returns it, config
\* or not; an object is constructed by nothing else; and once destroyInstance
\* has returned there is no instance, so the next getInstance needs a config.
C26_SingleInstance ==
  /\ [](last = Returned("destroyInstance") => instance = 0)
  /\ [][/\ \A hasConfig \in BOOLEAN :
            GetInstance(hasConfig) =>
              /\ (instance = 0 /\ ~hasConfig) =>
                   /\ last'.settled = "rejected"
                   /\ UNCHANGED <<instVars, objVars>>
              /\ (instance = 0 /\ hasConfig) =>
                   /\ last' = Returned("getInstance")
                   /\ instance' = nObj' /\ nObj' = nObj + 1
              /\ instance # 0 =>
                   /\ last' = Returned("getInstance")
                   /\ UNCHANGED <<instVars, objVars>>
        /\ nObj' # nObj => (instance = 0 /\ GetInstance(TRUE))
        /\ (instance # 0 /\ instance' # instance) =>
             (instance' = 0 /\ last' = Returned("destroyInstance"))]_vars

\* The instance was destroyed and getInstance has constructed a second one.
C26_Witness ==
  /\ instance = 2
  /\ nObj = 2
  /\ last = Returned("getInstance")

\* C27: on every object, isInitialized implies that the workflow and the MCP
\* client are set and that the client held has not been closed.
C27_InitializedIsUsable ==
  \A o \in Objs :
    isInitialized[o] =>
      /\ workflow[o] # 0
      /\ mcpClient[o] # 0
      /\ client[mcpClient[o]] = "open"

\* C30: once the response of a request is sent, the MCP client made for the
\* request, if one was made, is closed.
C30_ClientClosedAtResponse ==
  (gwPc = "done" /\ res # <<>>) => gwClient # "open"

====
